---- MODULE Spec2Model ----
(***************************************************************************)
(* Product-description ingestion of src/backend.py: the /ingest-products   *)
(* endpoint schedules run_product_ingestion, which deletes orphaned and    *)
(* outdated rows of langchain_embedding and then embeds the products that  *)
(* have no row, EMBEDDING_BATCH_SIZE at a time.                            *)
(*                                                                         *)
(* The two tables are sets of rows.  A description is a sequence of        *)
(* characters, so that SQL TRIM is computed and not assumed.               *)
(*                                                                         *)
(* The cursor of a run and vector_store.add_texts use different            *)
(* connections.  The code sets neither the isolation level nor autocommit  *)
(* of the cursor's connection, so whether the SELECTs of the loop read one *)
(* view (REPEATABLE READ in one open transaction) or the rows committed    *)
(* at the time of each SELECT (READ COMMITTED, autocommit) is decided by   *)
(* the deployment: snapshot_reads is chosen at start and never changes.    *)
(***************************************************************************)
EXTENDS Integers, Sequences, FiniteSets, TLC

\* ------------------------------------------------------------------ bounds
MaxId == 5        \* product ids are 1..MaxId
MaxInitial == 3   \* products in the table at start, when runs may overlap
MaxRuns == 2      \* POST /ingest-products requests
MaxCatOps == 1    \* writes of the catalogue owner to the products table
MaxTime == 1      \* CURRENT_TIMESTAMP runs over 0..MaxTime
MaxK == 2         \* the result limit k of a search is in 1..MaxK

\* EMBED_BATCH_SIZE of the environment (the default is 100), scaled down
EMBEDDING_BATCH_SIZE == 2

Ids == 1..MaxId
Runs == 1..MaxRuns

\* ------------------------------------------------------------ descriptions
NULL == <<"NULL">>
SP == " "
TAB == "\t"
Descs == {NULL, <<>>, <<SP>>, <<TAB>>, <<"a">>, <<SP, "b">>}
Keys == {"demo-key-123", "wrong-key"}
DEMO_API_KEY == "demo-key-123"

RECURSIVE LTrim(_)
LTrim(s) == IF s # <<>> /\ Head(s) = SP THEN LTrim(Tail(s)) ELSE s

RECURSIVE RTrim(_)
RTrim(s) == IF s # <<>> /\ s[Len(s)] = SP THEN RTrim(SubSeq(s, 1, Len(s) - 1)) ELSE s

\* SQL TRIM(str): leading and trailing spaces are removed, nothing else
TRIM(s) == RTrim(LTrim(s))

\* p.description IS NOT NULL AND TRIM(p.description) <> ''
HasDescription(d) == d # NULL /\ TRIM(d) # <<>>

NameOf(id) == <<"product", id>>
CategoryOf(id) == IF id % 2 = 1 THEN "Apparel" ELSE "Footwear"

VARIABLES
  snapshot_reads,       \* TRUE: the cursor's connection reads REPEATABLE READ with autocommit off
  products,             \* table products: rows [id, name, description, category, updated_at]
  langchain_embedding,  \* rows of the collection: [eid, id, name, category, document, created_at]
  now,                  \* CURRENT_TIMESTAMP
  cat_ops,              \* number of catalogue writes so far
  pc,                   \* per request: where its handler / background task stands
  response,             \* per request: what the HTTP caller received
  deleted,              \* per run: eids deleted in the open transaction (before COMMIT)
  orphaned_count,       \* per run: cursor.rowcount of the first DELETE
  outdated_count,       \* per run: cursor.rowcount of the second DELETE
  total_ingested,       \* per run
  batch_rows,           \* per run: the rows of the last fetch
  snap,                 \* per run: the read view of its open transaction
  calls,                \* per run: the id lists passed to add_texts calls that returned
  start,                \* per run: what the run saw when it began (history)
  touched,              \* per run: ids of the products written while it was running (history)
  search                \* the last /search-products request and what it was answered

vars == <<snapshot_reads, products, langchain_embedding, now, cat_ops, pc, response,
          deleted, orphaned_count, outdated_count, total_ingested, batch_rows, snap,
          calls, start, touched, search>>

run_vars == <<deleted, orphaned_count, outdated_count, total_ingested, batch_rows,
              snap, calls, start>>

\* --------------------------------------------------------------- helpers
Min(a, b) == IF a < b THEN a ELSE b

ProductRow(id, d, t) ==
  [id |-> id, name |-> NameOf(id), description |-> d, category |-> CategoryOf(id),
   updated_at |-> t]

\* ORDER BY p.id
OrderById(S) ==
  [i \in 1..Cardinality(S) |->
     CHOOSE p \in S : Cardinality({q \in S : q.id < p.id}) = i - 1]

\* the SELECT of the loop without its LIMIT/OFFSET: products with a
\* description and no embedding row
MissingRows(P, E) ==
  OrderById({p \in P : /\ \A e \in E : e.id # p.id
                       /\ HasDescription(p.description)})

\* LIMIT limit OFFSET offset
LimitOffset(s, limit, offset) ==
  SubSeq(s, offset + 1, Min(Len(s), offset + limit))

\* first DELETE: rows whose product is gone
OrphanedRows(P, E) == {e \in E : \A p \in P : p.id # e.id}

\* a slip in the second DELETE: >= for >
OutdatedRowsNotStrict(P, E) ==
  {e \in E : \E p \in P : /\ p.id = e.id
                          /\ p.updated_at >= e.created_at
                          /\ HasDescription(p.description)}

\* second DELETE: rows older than their product's last update
OutdatedRows(P, E) ==
  {e \in E : \E p \in P : /\ p.id = e.id
                          /\ p.updated_at > e.created_at
                          /\ HasDescription(p.description)}

Active(r) == pc[r] \in {"clean_orphans", "clean_stale", "commit", "fetch", "add"}
Raised(r) == pc[r] \in {"fetch_raised", "add_raised"}
Ended(r) == pc[r] = "done" \/ Raised(r)
NotBegun(r) == pc[r] \in {"none", "rejected", "scheduled"}

NoView == [set |-> FALSE, products |-> {}, embedding |-> {}]

NoSearch == [category |-> "", k |-> 0, documents |-> <<>>, status |-> "none",
             running |-> FALSE, skipped |-> FALSE]

\* the state after start-up with n products in the catalogue: no request
\* made, the collection empty
InitWith(n) ==
  /\ snapshot_reads \in BOOLEAN
  /\ products = {ProductRow(i, <<"a">>, 0) : i \in 1..n}
  /\ langchain_embedding = {}
  /\ now = 0
  /\ cat_ops = 0
  /\ pc = [r \in Runs |-> "none"]
  /\ response = [r \in Runs |-> "none"]
  /\ deleted = [r \in Runs |-> {}]
  /\ orphaned_count = [r \in Runs |-> 0]
  /\ outdated_count = [r \in Runs |-> 0]
  /\ total_ingested = [r \in Runs |-> 0]
  /\ batch_rows = [r \in Runs |-> <<>>]
  /\ snap = [r \in Runs |-> NoView]
  /\ calls = [r \in Runs |-> <<>>]
  /\ start = [r \in Runs |-> [cat_ops |-> 0, embedding |-> {}, products |-> {},
                              prior |-> {}]]
  /\ touched = [r \in Runs |-> {}]
  /\ search = NoSearch

Init == \E n \in 0..MaxInitial : InitWith(n)

InitSeq == \E n \in 0..MaxId : InitWith(n)


\* ------------------------------------------------- /ingest-products endpoint
Ack == "Ingestion started"
Unauthorized == "401 Invalid API key"

\* verify_api_key, then ingest_products: the run is only handed to
\* background_tasks, the response is returned before it begins
IngestProducts(r, api_key) ==
  /\ pc[r] = "none"
  /\ \A q \in Runs : q < r => pc[q] # "none"
  /\ IF api_key # DEMO_API_KEY
       THEN /\ pc' = [pc EXCEPT ![r] = "rejected"]
            /\ response' = [response EXCEPT ![r] = Unauthorized]
       ELSE /\ pc' = [pc EXCEPT ![r] = "scheduled"]
            /\ response' = [response EXCEPT ![r] = Ack]
  /\ UNCHANGED <<snapshot_reads, touched, search, products, langchain_embedding, now, cat_ops, run_vars>>

\* ---------------------------------------------------- run_product_ingestion
\* the background task takes a pooled connection; ALTER TABLE ... ADD COLUMN
\* IF NOT EXISTS changes no row
Begin(r) ==
  /\ pc[r] = "scheduled"
  /\ pc' = [pc EXCEPT ![r] = "clean_orphans"]
  /\ start' = [q \in Runs |->
                 IF q = r
                   THEN [cat_ops |-> cat_ops, embedding |-> langchain_embedding,
                         products |-> products,
                         prior |-> {x \in Runs : Ended(x)}]
                   ELSE start[q]]
  /\ UNCHANGED <<snapshot_reads, touched, search, products, langchain_embedding, now, cat_ops, response,
                 deleted, orphaned_count, outdated_count, total_ingested, batch_rows,
                 snap, calls>>

\* the rows of the collection the run's DELETE statements still see
Undeleted(r) == {e \in langchain_embedding : e.eid \notin deleted[r]}

DeleteOrphans(r) ==
  /\ pc[r] = "clean_orphans"
  /\ LET gone == OrphanedRows(products, Undeleted(r))
     IN /\ deleted' = [deleted EXCEPT ![r] = @ \cup {e.eid : e \in gone}]
        /\ orphaned_count' = [orphaned_count EXCEPT ![r] = Cardinality(gone)]
  /\ pc' = [pc EXCEPT ![r] = "clean_stale"]
  /\ UNCHANGED <<snapshot_reads, touched, search, products, langchain_embedding, now, cat_ops, response,
                 outdated_count, total_ingested, batch_rows, snap, calls, start>>

DeleteStale(r) ==
  /\ pc[r] = "clean_stale"
  /\ LET gone == OutdatedRows(products, Undeleted(r))
     IN /\ deleted' = [deleted EXCEPT ![r] = @ \cup {e.eid : e \in gone}]
        /\ outdated_count' = [outdated_count EXCEPT ![r] = Cardinality(gone)]
  /\ pc' = [pc EXCEPT ![r] = "commit"]
  /\ UNCHANGED <<snapshot_reads, touched, search, products, langchain_embedding, now, cat_ops, response,
                 orphaned_count, total_ingested, batch_rows, snap, calls, start>>

\* COMMIT publishes the two DELETEs
Commit(r) ==
  /\ pc[r] = "commit"
  /\ langchain_embedding' = Undeleted(r)
  /\ deleted' = [deleted EXCEPT ![r] = {}]
  /\ pc' = [pc EXCEPT ![r] = "fetch"]
  /\ UNCHANGED <<snapshot_reads, touched, search, products, now, cat_ops, response, orphaned_count,
                 outdated_count, total_ingested, batch_rows, snap, calls, start>>

\* what the SELECT of the loop reads: the tables as committed now, or the read
\* view the transaction opened with its first SELECT after the COMMIT
ReadView(r) ==
  IF snapshot_reads /\ snap[r].set
    THEN snap[r]
    ELSE [set |-> TRUE, products |-> products, embedding |-> langchain_embedding]

\* an offset that never advances
OffsetStuck(r) == 0 * total_ingested[r]

\* an offset that advances by the batch size after every batch
OffsetByBatches(r) == EMBEDDING_BATCH_SIZE * Len(calls[r])

\* OFFSET ? of the SELECT
Offset(r) == total_ingested[r]

Fetch(r) ==
  /\ pc[r] = "fetch"
  /\ LET view == ReadView(r)
         rows == LimitOffset(MissingRows(view.products, view.embedding),
                             EMBEDDING_BATCH_SIZE, Offset(r))
     IN /\ batch_rows' = [batch_rows EXCEPT ![r] = rows]
        /\ snap' = [snap EXCEPT ![r] = IF snapshot_reads THEN view ELSE @]
        /\ pc' = [pc EXCEPT ![r] = IF rows # <<>> THEN "add" ELSE "done"]
  /\ UNCHANGED <<snapshot_reads, touched, search, products, langchain_embedding, now, cat_ops, response,
                 deleted, orphaned_count, outdated_count, total_ingested, calls, start>>

\* the rows vector_store.add_texts writes for the batch, stamped by the
\* column default CURRENT_TIMESTAMP
NewRows(r) ==
  {[eid |-> <<r, total_ingested[r] + i>>,
    id |-> batch_rows[r][i].id,
    name |-> batch_rows[r][i].name,
    category |-> batch_rows[r][i].category,
    document |-> batch_rows[r][i].description,
    created_at |-> now] : i \in 1..Len(batch_rows[r])}

AddTexts(r) ==
  /\ pc[r] = "add"
  /\ langchain_embedding' = langchain_embedding \cup NewRows(r)
  /\ total_ingested' = [total_ingested EXCEPT ![r] = @ + Len(batch_rows[r])]
  /\ calls' = [calls EXCEPT ![r] = Append(@, [i \in 1..Len(batch_rows[r]) |->
                                               batch_rows[r][i].id])]
  /\ pc' = [pc EXCEPT ![r] = "fetch"]
  /\ UNCHANGED <<snapshot_reads, touched, search, products, now, cat_ops, response, deleted,
                 orphaned_count, outdated_count, batch_rows, snap, start>>

\* a run that undoes its own batches when it fails
AfterRaiseRollback(r) == {e \in langchain_embedding : e.eid[1] # r}

\* what is left of the collection when a statement of the loop raises: the
\* exception leaves the function, nothing is undone
AfterRaise(r) == langchain_embedding

\* a trigger that reports the failure of the run to its caller
ResponseError(r) == "500 Internal Server Error"

\* what the caller of /ingest-products holds after the task raised
ResponseAfterRaise(r) == response[r]

\* the SELECT or add_texts raises (store unreachable, embedding time-out)
Raise(r) ==
  /\ pc[r] \in {"fetch", "add"}
  /\ pc' = [pc EXCEPT ![r] = IF pc[r] = "add" THEN "add_raised" ELSE "fetch_raised"]
  /\ langchain_embedding' = AfterRaise(r)
  /\ response' = [response EXCEPT ![r] = ResponseAfterRaise(r)]
  /\ UNCHANGED <<snapshot_reads, touched, search, products, now, cat_ops, run_vars>>

\* ------------------------------------------------------------- environment
Tick ==
  /\ now < MaxTime
  /\ now' = now + 1
  /\ UNCHANGED <<snapshot_reads, touched, search, products, langchain_embedding, cat_ops, pc, response,
                 run_vars>>

\* INSERT or UPDATE of a product by the catalogue owner
CatalogWrite(id, d) ==
  /\ cat_ops < MaxCatOps
  /\ products' = {p \in products : p.id # id} \cup {ProductRow(id, d, now)}
  /\ cat_ops' = cat_ops + 1
  /\ touched' = [r \in Runs |-> IF Active(r) THEN touched[r] \cup {id} ELSE touched[r]]
  /\ UNCHANGED <<snapshot_reads, search, langchain_embedding, now, pc, response, run_vars>>

CatalogDelete(id) ==
  /\ cat_ops < MaxCatOps
  /\ \E p \in products : p.id = id
  /\ products' = {p \in products : p.id # id}
  /\ cat_ops' = cat_ops + 1
  /\ touched' = [r \in Runs |-> IF Active(r) THEN touched[r] \cup {id} ELSE touched[r]]
  /\ UNCHANGED <<snapshot_reads, search, langchain_embedding, now, pc, response, run_vars>>

Next ==
  \/ \E r \in Runs, k \in Keys : IngestProducts(r, k)
  \/ \E r \in Runs : Begin(r)
  \/ \E r \in Runs : DeleteOrphans(r)
  \/ \E r \in Runs : DeleteStale(r)
  \/ \E r \in Runs : Commit(r)
  \/ \E r \in Runs : Fetch(r)
  \/ \E r \in Runs : AddTexts(r)
  \/ \E r \in Runs : Raise(r)
  \/ Tick
  \/ \E id \in Ids, d \in Descs : CatalogWrite(id, d)
  \/ \E id \in Ids : CatalogDelete(id)

Spec == Init /\ [][Next]_vars

\* one run at a time: a request arrives only when no run is pending
Idle == \A q \in Runs : pc[q] \in {"none", "rejected"} \/ Ended(q)

NextSeq ==
  \/ \E r \in Runs, k \in Keys : Idle /\ IngestProducts(r, k)
  \/ \E r \in Runs : Begin(r)
  \/ \E r \in Runs : DeleteOrphans(r)
  \/ \E r \in Runs : DeleteStale(r)
  \/ \E r \in Runs : Commit(r)
  \/ \E r \in Runs : Fetch(r)
  \/ \E r \in Runs : AddTexts(r)
  \/ \E r \in Runs : Raise(r)
  \/ Tick
  \/ \E id \in Ids, d \in Descs : CatalogWrite(id, d)
  \/ \E id \in Ids : CatalogDelete(id)

SpecSeq == InitSeq /\ [][NextSeq]_vars

\* ------------------------------------------------------------------ search
Categories == {"Apparel", "Footwear", "Camping"}
Queries == {"boots", ""}

\* a search that leaves the metadata filter out
SearchNoFilter(e, category) == TRUE

\* the filter {"category": category} of similarity_search: metadata equality
SearchFilter(e, category) == e.category = category

\* a row of the collection as the Document that the store returns
Document(e) == [page_content |-> e.document,
                metadata |-> [id |-> e.id, name |-> e.name, category |-> e.category]]

\* the n nearest rows of M in the order of some ranking; the ranking of the
\* vector engine depends on the query text and is not determined here
Rankings(M, n) == {s \in [1..n -> M] : \A i, j \in 1..n : s[i] = s[j] => i = j}

similarity_search(search_query, k, category) ==
  LET M == {e \in langchain_embedding : SearchFilter(e, category)}
  IN  {[i \in 1..Len(s) |-> Document(s[i])] : s \in Rankings(M, Min(k, Cardinality(M)))}

\* results of the response: id, name and description of every document
Results(documents) ==
  [i \in 1..Len(documents) |-> [id |-> documents[i].metadata.id,
                                name |-> documents[i].metadata.name,
                                description |-> documents[i].page_content]]

\* GET /search-products
SearchProducts(search_query, category, k, api_key) ==
  /\ IF api_key # DEMO_API_KEY
     THEN search' = [NoSearch EXCEPT !.status = "rejected"]
     ELSE \E documents \in similarity_search(search_query, k, category) :
            search' = [category |-> category, k |-> k, documents |-> documents,
                       status |-> "ok",
                       running |-> \E r \in Runs : Active(r),
                       skipped |-> \E e \in langchain_embedding : e.category # category]
  /\ UNCHANGED <<snapshot_reads, touched, products, langchain_embedding, now, cat_ops, pc,
                 response, run_vars>>

InitSearch == \E n \in 0..MaxInitial : InitWith(n)

\* searches while runs ingest, one run at a time, and products are deleted
NextSearch ==
  \/ \E r \in Runs, k \in Keys : Idle /\ IngestProducts(r, k)
  \/ \E r \in Runs : Begin(r)
  \/ \E r \in Runs : DeleteOrphans(r)
  \/ \E r \in Runs : DeleteStale(r)
  \/ \E r \in Runs : Commit(r)
  \/ \E r \in Runs : Fetch(r)
  \/ \E r \in Runs : AddTexts(r)
  \/ \E r \in Runs : Raise(r)
  \/ Tick
  \/ \E id \in Ids : CatalogDelete(id)
  \/ \E q \in Queries, c \in Categories, k \in 1..MaxK, key \in Keys : SearchProducts(q, c, k, key)

SpecSearch == InitSearch /\ [][NextSearch]_vars

\* ------------------------------------------------- runs that are left alone
\* no run is between its first statement and its end
Quiet == \A r \in Runs : ~Active(r)

\* the statements of run r, in program order
RunStep(r) ==
  \/ Begin(r)
  \/ DeleteOrphans(r)
  \/ DeleteStale(r)
  \/ Commit(r)
  \/ Fetch(r)
  \/ AddTexts(r)

InitLive == \E n \in 0..MaxInitial : InitWith(n)

\* no statement raises, and the catalogue is written only while no run is
\* in progress; runs of separate requests may overlap
NextLive ==
  \/ \E r \in Runs, k \in Keys : IngestProducts(r, k)
  \/ \E r \in Runs : Begin(r)
  \/ \E r \in Runs : DeleteOrphans(r)
  \/ \E r \in Runs : DeleteStale(r)
  \/ \E r \in Runs : Commit(r)
  \/ \E r \in Runs : Fetch(r)
  \/ \E r \in Runs : AddTexts(r)
  \/ Tick
  \/ \E id \in Ids, d \in Descs : Quiet /\ CatalogWrite(id, d)
  \/ \E id \in Ids : Quiet /\ CatalogDelete(id)

\* a scheduled background task is started, and a started run executes its
\* next statement
SpecLive == InitLive /\ [][NextLive]_vars /\ \A r \in Runs : WF_vars(RunStep(r))


\* ==================================================================== claims
\* a description the specification calls blank: null, empty or whitespace only
Blank(d) == d = NULL \/ \A i \in 1..Len(d) : d[i] \in {SP, TAB}

EntriesOf(id) == {e \in langchain_embedding : e.id = id}

\* no other run overlapped run r or began after it
Alone(r) == \A q \in Runs \ {r} : NotBegun(q) \/ q \in start[r].prior

\* ... and the catalogue has not been written since r began
Undisturbed(r) == Alone(r) /\ cat_ops = start[r].cat_ops

Completed(r) == pc[r] = "done" /\ Undisturbed(r)

\* r2 is the run after r1, and neither overlapped any run
InSuccession(r1, r2) ==
  /\ r1 # r2
  /\ ~NotBegun(r1) /\ ~NotBegun(r2)
  /\ start[r2].prior = start[r1].prior \cup {r1}
  /\ \A q \in Runs \ {r1, r2} : NotBegun(q) \/ q \in start[r1].prior

\* the rows of the collection run r found that its two DELETEs remove
CleanedAtStart(r) ==
  OrphanedRows(start[r].products, start[r].embedding)
    \cup OutdatedRows(start[r].products, start[r].embedding)

\* the missing records at the start of the ingestion phase of an undisturbed run
MissingAtIngestion(r) ==
  MissingRows(start[r].products, start[r].embedding \ CleanedAtStart(r))

BatchSizes(r) == [k \in 1..Len(calls[r]) |-> Len(calls[r][k])]

Ingested(r, id) == \E k \in 1..Len(calls[r]) : \E j \in 1..Len(calls[r][k]) : calls[r][k][j] = id

\* C1 (convergence): a completed, undisturbed run that began with an empty
\* collection and N products, none with a blank description, leaves exactly N
\* rows, one per product.
C1_Convergence ==
  \A r \in Runs :
    (/\ Completed(r)
     /\ start[r].embedding = {}
     /\ \A p \in start[r].products : ~Blank(p.description))
    => /\ \A p \in products : Cardinality(EntriesOf(p.id)) = 1
       /\ Cardinality(langchain_embedding) = Cardinality(products)

\* C2 (cross-store invariant restored): at the end of a completed, undisturbed
\* run every product with a non-blank description has exactly one row, created
\* no earlier than the product's last update, and every row belongs to a product.
C2_CrossStoreRestored ==
  \A r \in Runs :
    Completed(r)
    => /\ \A p \in products :
            ~Blank(p.description)
            => /\ Cardinality(EntriesOf(p.id)) = 1
               /\ \A e \in EntriesOf(p.id) : e.created_at >= p.updated_at
       /\ OrphanedRows(products, langchain_embedding) = {}

\* C3 (idempotence): of two completed runs in succession with no catalogue
\* write since the first began, the second deletes nothing, ingests nothing and
\* leaves the collection as it found it.
C3_Idempotence ==
  \A r1, r2 \in Runs :
    (/\ InSuccession(r1, r2)
     /\ pc[r1] = "done" /\ pc[r2] = "done"
     /\ cat_ops = start[r1].cat_ops)
    => /\ orphaned_count[r2] = 0
       /\ outdated_count[r2] = 0
       /\ calls[r2] = <<>>
       /\ total_ingested[r2] = 0
       /\ langchain_embedding = start[r2].embedding

\* C4 (batch boundary): a completed, undisturbed run that finds exactly
\* 2 * batch_size + 1 missing records calls add_texts three times, with
\* batch_size, batch_size and 1 records, and counts 2 * batch_size + 1.
C4_BatchBoundary ==
  \A r \in Runs :
    (/\ Completed(r)
     /\ Len(MissingAtIngestion(r)) = 2 * EMBEDDING_BATCH_SIZE + 1)
    => /\ BatchSizes(r) = <<EMBEDDING_BATCH_SIZE, EMBEDDING_BATCH_SIZE, 1>>
       /\ total_ingested[r] = 2 * EMBEDDING_BATCH_SIZE + 1

\* C5 (staleness correction): a row created before the last update of its
\* product (non-blank description) is gone after one completed, undisturbed
\* run, and the product has a row created no earlier than that update.
C5_StalenessCorrected ==
  \A r \in Runs :
    Completed(r)
    => \A e \in start[r].embedding : \A p \in start[r].products :
         (p.id = e.id /\ p.updated_at > e.created_at /\ ~Blank(p.description))
         => /\ e \notin langchain_embedding
            /\ \E e2 \in langchain_embedding :
                 e2.id = p.id /\ e2.created_at >= p.updated_at

\* the case of C6: run r found an orphaned row, and every other row was a
\* fresh row of an existing product
OrphanCase(r) ==
  /\ OrphanedRows(start[r].products, start[r].embedding) # {}
  /\ \A e \in start[r].embedding \ OrphanedRows(start[r].products, start[r].embedding) :
       \E p \in start[r].products : p.id = e.id /\ e.created_at >= p.updated_at

\* C6 (orphan correction): when a run found orphaned rows and all other rows
\* fresh, then after the run (undisturbed) the orphaned rows are gone and every
\* other row it found is still there, the very same row.
C6_OrphanCorrection ==
  \A r \in Runs :
    (Ended(r) /\ Undisturbed(r) /\ OrphanCase(r))
    => langchain_embedding \cap start[r].embedding
         = start[r].embedding \ OrphanedRows(start[r].products, start[r].embedding)

\* reached: an ended run removed an orphaned row and kept another one
C6_Witness ==
  \E r \in Runs :
    /\ pc[r] = "done" /\ Undisturbed(r) /\ OrphanCase(r)
    /\ orphaned_count[r] > 0
    /\ langchain_embedding \cap start[r].embedding # {}

\* C7 (blank-description exclusion): no fetch of any run returns a product
\* whose description is null, empty or whitespace only, and no row of the
\* collection holds such a text.
C7_BlankExcluded ==
  /\ \A r \in Runs : \A i \in 1..Len(batch_rows[r]) : ~Blank(batch_rows[r][i].description)
  /\ \A e \in langchain_embedding : ~Blank(e.document)

\* the example of C7: products (1, 'a') and (2, '') and an empty collection
\* leave one row, of product 1, and a count of 1
C7_Example ==
  \A r \in Runs :
    (/\ Completed(r)
     /\ start[r].embedding = {}
     /\ {[id |-> p.id, description |-> p.description] : p \in start[r].products}
          = {[id |-> 1, description |-> <<"a">>], [id |-> 2, description |-> <<>>]})
    => /\ {e.id : e \in langchain_embedding} = {1}
       /\ Cardinality(langchain_embedding) = 1
       /\ total_ingested[r] = 1

C7_ExampleReached ==
  \E r \in Runs :
    /\ Completed(r)
    /\ start[r].embedding = {}
    /\ {[id |-> p.id, description |-> p.description] : p \in start[r].products}
          = {[id |-> 1, description |-> <<"a">>], [id |-> 2, description |-> <<>>]}

\* what the code does exclude: null, empty and space-only descriptions
SpaceBlankExcluded ==
  /\ \A r \in Runs : \A i \in 1..Len(batch_rows[r]) :
        /\ batch_rows[r][i].description # NULL
        /\ \E j \in 1..Len(batch_rows[r][i].description) :
              batch_rows[r][i].description[j] # SP
  /\ \A e \in langchain_embedding :
        e.document # NULL /\ \E j \in 1..Len(e.document) : e.document[j] # SP


\* the rows run r has written
WrittenBy(r) == {e \in langchain_embedding : e.eid[1] = r}

\* after an undisturbed run raised: the rows of its earlier batches are in the
\* collection, and of the rows it found exactly the cleaned ones are gone
C8_State ==
  \A r \in Runs :
    (Raised(r) /\ Undisturbed(r))
    => /\ Cardinality(WrittenBy(r)) = total_ingested[r]
       /\ \A e \in WrittenBy(r) : Ingested(r, e.id)
       /\ \A k \in 1..Len(calls[r]) : \A j \in 1..Len(calls[r][k]) :
            \E e \in WrittenBy(r) : e.id = calls[r][k][j]
       /\ langchain_embedding \cap start[r].embedding
            = start[r].embedding \ CleanedAtStart(r)

\* the step that raises changes no row, and a run that raised takes no
\* further step: no fetch, no add_texts, no retry
C8_Step ==
  \A r \in Runs :
    /\ (pc[r] \in {"fetch", "add"} /\ pc'[r] \in {"fetch_raised", "add_raised"})
         => langchain_embedding' = langchain_embedding
    /\ Raised(r)
         => /\ pc'[r] = pc[r]
            /\ total_ingested'[r] = total_ingested[r]
            /\ calls'[r] = calls[r]
            /\ batch_rows'[r] = batch_rows[r]
            /\ WrittenBy(r)' \subseteq WrittenBy(r)

\* C8 (abort without rollback): when the fetch or add_texts raises, the run
\* stops at once; the committed deletions and the rows of the earlier batches
\* stay, and the run does nothing more.
C8_AbortWithoutRollback == []C8_State /\ [][C8_Step]_vars

\* reached: a run deleted an orphaned row, wrote a batch, and then add_texts raised
C8_Witness ==
  \E r \in Runs :
    /\ pc[r] = "add_raised" /\ Undisturbed(r)
    /\ orphaned_count[r] > 0
    /\ total_ingested[r] > 0

\* C9 (implicit retry): when add_texts raised in run r1 and the next run r2
\* completed, with no catalogue write since r1 began, no record of the failed
\* batch has a row written by r1, and each was ingested by r2 and has a row.
C9_ImplicitRetry ==
  \A r1, r2 \in Runs :
    (/\ InSuccession(r1, r2)
     /\ pc[r1] = "add_raised" /\ pc[r2] = "done"
     /\ cat_ops = start[r1].cat_ops)
    => \A i \in 1..Len(batch_rows[r1]) :
         /\ Ingested(r2, batch_rows[r1][i].id)
         /\ EntriesOf(batch_rows[r1][i].id) # {}

\* the caller of an accepted request holds the acknowledgment, whatever the
\* run has done since
C10_State ==
  \A r \in Runs :
    /\ pc[r] \notin {"none", "rejected"} => response[r] = Ack
    /\ pc[r] = "rejected" => response[r] = Unauthorized

\* the acknowledgment is given in the step that schedules the run, in which
\* the run does nothing; a response once given never changes
C10_Step ==
  \A r \in Runs :
    /\ (response[r] = "none" /\ response'[r] = Ack)
         => /\ pc'[r] = "scheduled"
            /\ langchain_embedding' = langchain_embedding
            /\ UNCHANGED run_vars
    /\ response[r] # "none" => response'[r] = response[r]

\* C10 (fire-and-forget trigger): an accepted request only schedules the run
\* and is acknowledged before the run takes a step; the acknowledgment is the
\* same whether the run completes or raises, and no error reaches the caller.
C10_FireAndForget == []C10_State /\ [][C10_Step]_vars

\* reached: one acknowledged run completed and another one raised
C10_Witness ==
  \E r1, r2 \in Runs :
    /\ pc[r1] = "done" /\ Raised(r2)
    /\ response[r1] = Ack /\ response[r2] = Ack

\* C11: every result of search_products comes from a row of the collection
\* whose metadata category is the requested category, whatever the query,
\* k and the rows are, also while a run is in progress
C11_State ==
  search.status = "ok" =>
    /\ Len(search.documents) <= search.k
    /\ \A i \in 1..Len(search.documents) : search.documents[i].metadata.category = search.category

C11_Step ==
  search' # search /\ search'.status = "ok" =>
    \A i \in 1..Len(search'.documents) :
      \E e \in langchain_embedding :
        /\ e.category = search'.category
        /\ search'.documents[i] = Document(e)
        /\ Results(search'.documents)[i] =
             [id |-> e.id, name |-> e.name, description |-> e.document]

C11_FilteredSearchExactness == []C11_State /\ [][C11_Step]_vars

C11_Witness ==
  /\ search.status = "ok"
  /\ search.running
  /\ search.skipped
  /\ Len(search.documents) >= 1

\* C12: the collection holds at most one row per product id in every
\* reachable state, runs of separate requests overlapping included
C12_OneEntryPerRecord == \A id \in Ids : Cardinality(EntriesOf(id)) <= 1

\* C13: when products were updated or deleted while run r1 was in progress
\* and the next run r2 has completed with no catalogue write since it began,
\* a deleted product has no row and every row of an updated product (with a
\* non-blank description) holds the description the update wrote
C13_MidRunCorrected ==
  \A r1, r2 \in Runs :
    (/\ InSuccession(r1, r2)
     /\ Ended(r1) /\ pc[r2] = "done"
     /\ cat_ops = start[r2].cat_ops)
    => \A id \in touched[r1] :
         /\ (\A p \in products : p.id # id) => EntriesOf(id) = {}
         /\ \A p \in products :
              (p.id = id /\ ~Blank(p.description))
              => \A e \in EntriesOf(id) : e.document = p.description

\* the part of C13 about deleted products
C13_DeletedCorrected ==
  \A r1, r2 \in Runs :
    (/\ InSuccession(r1, r2)
     /\ Ended(r1) /\ pc[r2] = "done"
     /\ cat_ops = start[r2].cat_ops)
    => \A id \in touched[r1] : (\A p \in products : p.id # id) => EntriesOf(id) = {}

\* C14 as stated: after a non-empty batch fetched at offset o has been
\* upserted, the next fetch of the run is at o + EMBEDDING_BATCH_SIZE, also
\* when the batch was partial
C14_OffsetAdvance ==
  [][\A r \in Runs :
       (pc[r] = "add" /\ pc'[r] = "fetch")
       => Offset(r)' = Offset(r) + EMBEDDING_BATCH_SIZE]_vars

\* C14 (amended): after a non-empty batch of n rows fetched at offset o has
\* been upserted, the next fetch of the run is at o + n, which is
\* o + EMBEDDING_BATCH_SIZE when the batch was full; the offset moves at no
\* other step
C14_Step ==
  \A r \in Runs :
    IF pc[r] = "add" /\ pc'[r] = "fetch"
    THEN /\ Len(batch_rows[r]) \in 1..EMBEDDING_BATCH_SIZE
         /\ Offset(r)' = Offset(r) + Len(batch_rows[r])
         /\ Len(batch_rows[r]) = EMBEDDING_BATCH_SIZE
              => Offset(r)' = Offset(r) + EMBEDDING_BATCH_SIZE
    ELSE Offset(r)' = Offset(r)

C14_OffsetAdvanceByRows == [][C14_Step]_vars

\* a run about to fetch after a full batch and then a partial batch
C14_Witness ==
  \E r \in Runs :
    /\ pc[r] = "fetch"
    /\ Len(calls[r]) = 2
    /\ Len(calls[r][1]) = EMBEDDING_BATCH_SIZE
    /\ Len(calls[r][2]) < EMBEDDING_BATCH_SIZE
    /\ Offset(r) = EMBEDDING_BATCH_SIZE + Len(calls[r][2])

\* the batches of a run are non-empty, of at most EMBEDDING_BATCH_SIZE
\* records, and no more than the products the run found with a description
C15_Bounded ==
  \A r \in Runs :
    /\ \A k \in 1..Len(calls[r]) : Len(calls[r][k]) \in 1..EMBEDDING_BATCH_SIZE
    /\ Len(batch_rows[r]) <= EMBEDDING_BATCH_SIZE
    /\ Len(calls[r]) <= Cardinality({p \in start[r].products : HasDescription(p.description)})

\* C15 (termination): a run in which no statement raises and during which
\* the catalogue is not written ends in its terminal state, after finitely
\* many batches of at most EMBEDDING_BATCH_SIZE records each; it leaves the
\* loop on the first empty fetch
C15_Termination ==
  /\ []C15_Bounded
  /\ [][\A r \in Runs : (pc[r] # "done" /\ pc'[r] = "done")
                         => pc[r] = "fetch" /\ batch_rows'[r] = <<>>]_vars
  /\ \A r \in Runs : (pc[r] = "scheduled") ~> (pc[r] = "done")

\* a run that ended after a full and a partial batch
C15_Witness ==
  \E r \in Runs :
    /\ pc[r] = "done"
    /\ Len(calls[r]) >= 2
    /\ batch_rows[r] = <<>>

\* a description the two DELETEs and the SELECT of the code take for absent
NoDescription(d) == ~HasDescription(d)

\* a row whose product exists with a description that has since become
\* blank (in the sense of IsBlank) is selected by no DELETE of this step,
\* stays in the collection and is an answer of a search of its category
Retained(IsBlank(_)) ==
  \A e \in langchain_embedding :
    (\E p \in products :
       p.id = e.id /\ IsBlank(p.description) /\ e.document # p.description)
    => /\ \A r \in Runs : e.eid \in deleted'[r] => e.eid \in deleted[r]
       /\ (\A r \in Runs : e.eid \notin deleted[r])
            => /\ e \in langchain_embedding'
               /\ (<<Document(e)>> \in similarity_search("", 1, e.category))'

\* C16: the row of a product whose description has become null or blank
\* (whitespace only) is deleted by no run and stays an answer of
\* search_products, with its old text
C16_BlankedRetained == [][Retained(Blank)]_vars

\* the same for the descriptions that are null, empty or spaces only
C16_SpaceBlankedRetained == [][Retained(NoDescription)]_vars

====
